---- MODULE Spec2Model ----
(***************************************************************************)
(* Batch execution engine of DifyAgentPressureTest.                        *)
(*                                                                         *)
(* One TestRecord (the run) is held in the store.  Start requests          *)
(* (run_record) schedule a wrapper as a background task; the wrapper marks *)
(* the run RUNNING and drives run_chatflow_tests_async /                   *)
(* run_workflow_tests_async, which creates one asyncio task per dataset    *)
(* row, gated by an asyncio.Semaphore.  Every `await asyncio.to_thread`    *)
(* is a worker thread whose effect on the store happens at its own step;   *)
(* everything between two awaits of a coroutine is one event-loop step.    *)
(* cancel_test flips the status to CANCELLED at any time.                  *)
(***************************************************************************)
EXTENDS Integers, Sequences, FiniteSets, TLC

\* ---------------------------------------------------------------- bounds
NumRequests == 2        \* start requests (run_record calls) on the run
MaxRows == 2            \* rows of the dataset
MaxConcurrency == 2     \* largest value of the run's `concurrency`
MaxCancels == 1         \* cancel_test calls
MaxWork == 4            \* wrappers and rows of all batches together, when the run is started more than once
MaxCandidates == 2      \* candidate judge models given to llm_connection_test
MaxRecords == 2         \* test records created in one client session

\* --------------------------------------------------------- program values
ExperimentRows == 3     \* df.head(3) in experiment mode

INIT == "init"
RUNNING == "running"
CANCELLED == "cancelled"
FAILED == "failed"
SUCCESS == "success"
EXPERIMENT == "experiment"
TestStatus == {INIT, RUNNING, CANCELLED, FAILED, SUCCESS, EXPERIMENT}

CHATFLOW == "chatflow"
WORKFLOW == "workflow"
AgentType == {CHATFLOW, WORKFLOW}

Modes == {"all", "experiment"}

Batches == 1..NumRequests
RowIds == 1..MaxRows

\* Python None / SQL NULL is the empty tuple, a value v is <<v>>.
None == <<>>
Some(v) == <<v>>

VARIABLES
    record,        \* the TestRecord row: status, success_count, failure_count, result, duration
    run_results,   \* the single_run_result rows of the run, as <<batch, row>>
    nrows,         \* number of rows of the run's dataset
    concurrency,   \* TestRecord.concurrency
    agent_type,    \* TestRecord.agent_type
    resp,          \* per start request: the response of run_record
    mode,          \* per start request: the `mode` query parameter
    wpc,           \* per batch: position of the wrapper
    wret,          \* per batch: value returned by the wrapper
    cpc,           \* per batch: position of the runner's completion loop
    pending,       \* per batch: `pending` of the completion loop
    all_results,   \* per batch: rows whose result was appended to all_results
    sem,           \* per batch: value of the asyncio.Semaphore
    tpc,           \* per batch and row: position of the task _run_single
    tcancel,       \* per batch and row: Task.cancel() was called and not yet delivered
    thread,        \* per batch and row: the worker thread of the last to_thread call
    tres,          \* per batch and row: what a finished task returned
    hist,          \* per batch and row, history: agent call started, status CANCELLED
                   \* when it finished, increments committed
    cancels,       \* number of cancel_test calls made
    candidate_models,  \* llm_connection_test: its argument
    probe_status,  \* per candidate: result.get('status') of its connectivity call
    lpc,           \* llm_connection_test: index of the candidate the loop is at
    probed,        \* history: ids of the candidates whose connectivity call was made
    llm,           \* what llm_connection_test returned (session["llm"])
    row_case,      \* single-row invocation: the row and what the agent and the judge answer
    rpc,           \* single-row invocation: position of _run_single
    result,        \* single-row invocation: what single_test_*_non_stream_pressure returned
    scored,        \* history: the scoring function was called for the row
    judge_of,      \* per record of the session: the provider model its creation asked for
    bound,         \* per record, history: what llm_connection_test returned at its creation
    used           \* per record: the `llm` its wrapper read from the session at start

\* The judge binding: the batch reads session["llm"] and never writes it.
judge == <<candidate_models, probe_status, lpc, probed, llm>>

\* One row taken through _run_single on its own.
single == <<row_case, rpc, result, scored>>

\* The records of one client session and the scorer each one runs with.
session == <<judge_of, bound, used>>

vars == <<record, run_results, nrows, concurrency, agent_type, resp, mode,
          wpc, wret, cpc, pending, all_results, sem, tpc, tcancel, thread, tres,
          hist, cancels, judge, single, session>>

inputs == <<nrows, concurrency, agent_type, judge, single, session>>

\* ------------------------------------------------------------- helpers
Min(a, b) == IF a <= b THEN a ELSE b

Least(S) == CHOOSE x \in S : \A y \in S : x <= y

NoThread == [op |-> "none", st |-> "none"]
Started(op) == [op |-> op, st |-> "run"]

\* Rows of the batch's DataFrame: df.head(3) in experiment mode.
df_len(b) == IF mode[b] = "experiment" THEN Min(nrows, ExperimentRows) ELSE nrows

\* The keys of the dict single_test_*_non_stream_pressure returns.
ResultKeys(at) ==
    IF at = CHATFLOW
    THEN {"time_consumption", "token_num", "TPS", "score", "generated_answer"}
    ELSE {"time_consumption", "token_num", "TPS", "score"}

\* What single_test_*_non_stream_pressure returns for a row.
RowMetrics == [time_consumption |-> 1, token_num |-> 2, TPS |-> 2, score |-> 100]

RECURSIVE SumOver(_, _)
SumOver(S, field) ==
    IF S = {} THEN 0
    ELSE LET i == Least(S) IN RowMetrics[field] + SumOver(S \ {i}, field)

\* Python's true division, kept as an unreduced fraction.
Div(s, n) == [num |-> s, den |-> n]

\* ------------------------------------------------------------ the store
\* TestRecordCRUD.update_by_uuid: one UPDATE of the keyword arguments that
\* are not None, committed at once.
update_by_uuid_status_only(rec, kwargs) ==
    [f \in DOMAIN rec |->
        IF f = "status" /\ f \in DOMAIN kwargs /\ kwargs[f] # None
        THEN kwargs[f][1] ELSE rec[f]]

update_by_uuid(rec, kwargs) ==
    LET update_data == {k \in DOMAIN kwargs : kwargs[k] # None}
    IN  [f \in DOMAIN rec |->
            IF f \in update_data
            THEN (IF f \in {"result", "duration"} THEN kwargs[f] ELSE kwargs[f][1])
            ELSE rec[f]]

\* check_cancelled_sync raises asyncio.CancelledError iff this holds.
check_cancelled_or_failed == record.status = CANCELLED \/ record.failure_count > 0

check_cancelled_sync == record.status = CANCELLED

\* ---------------------------------------------------------------- Init
\* No start request made yet on the created run.
NotStarted ==
    /\ record = [status |-> INIT, success_count |-> 0, failure_count |-> 0,
                 result |-> None, duration |-> None]
    /\ run_results = {}
    /\ resp = [r \in Batches |-> [kind |-> "none", body |-> None]]
    /\ mode = [r \in Batches |-> "all"]
    /\ wpc = [b \in Batches |-> "none"]
    /\ wret = [b \in Batches |-> None]
    /\ cpc = [b \in Batches |-> "idle"]
    /\ pending = [b \in Batches |-> {}]
    /\ all_results = [b \in Batches |-> {}]
    /\ sem = [b \in Batches |-> 0]
    /\ tpc = [b \in Batches |-> [i \in RowIds |-> "absent"]]
    /\ tcancel = [b \in Batches |-> [i \in RowIds |-> FALSE]]
    /\ thread = [b \in Batches |-> [i \in RowIds |-> NoThread]]
    /\ tres = [b \in Batches |-> [i \in RowIds |-> "none"]]
    /\ hist = [b \in Batches |-> [i \in RowIds |-> [invoked |-> FALSE, late |-> FALSE, s |-> 0, f |-> 0]]]
    /\ cancels = 0

\* llm_connection_test has not been called.
NoJudge ==
    /\ candidate_models = <<>>
    /\ probe_status = <<>>
    /\ lpc = 1
    /\ probed = <<>>
    /\ llm = None

\* No row is being followed on its own.
NoSingle ==
    /\ row_case = None
    /\ rpc = "none"
    /\ result = None
    /\ scored = FALSE

\* No record of the session is followed.
NoSession ==
    /\ judge_of = [r \in 1..MaxRecords |-> None]
    /\ bound = [r \in 1..MaxRecords |-> None]
    /\ used = [r \in 1..MaxRecords |-> None]

Init ==
    /\ NotStarted
    /\ nrows \in 0..MaxRows
    /\ concurrency \in 1..MaxConcurrency
    /\ agent_type \in AgentType
    /\ NoJudge
    /\ NoSingle
    /\ NoSession

\* ------------------------------------------------------- start / cancel
\* run_record: the branch taken on the status read from the store.
run_record_ignores_running(status) ==
    IF status = SUCCESS THEN "stored_result"
    ELSE IF status = CANCELLED THEN "already_cancelled"
    ELSE "started"

run_record_reruns_terminal(status) ==
    IF status = RUNNING THEN "already_running"
    ELSE "started"

run_record_branch(status) ==
    IF status = RUNNING THEN "already_running"
    ELSE IF status = SUCCESS THEN "stored_result"
    ELSE IF status = CANCELLED THEN "already_cancelled"
    ELSE "started"

\* run_record: one read of the run, then the response; only the last
\* branch adds the wrapper to the background tasks.
RunRecord(r) ==
    /\ resp[r].kind = "none"
    /\ \A q \in Batches : q < r => resp[q].kind # "none"
    /\ r = 1 \/ r * (nrows + 1) <= MaxWork
    /\ LET existing == record
           branch == run_record_branch(existing.status)
       IN  /\ resp' = [resp EXCEPT ![r] =
                         [kind |-> branch,
                          body |-> IF branch = "stored_result" THEN existing.result ELSE None]]
           /\ IF branch = "started"
              THEN /\ \E m \in Modes : mode' = [mode EXCEPT ![r] = m]
                   /\ wpc' = [wpc EXCEPT ![r] = "scheduled"]
              ELSE UNCHANGED <<wpc, mode>>
    /\ UNCHANGED <<record, run_results, inputs, wret, cpc, pending, all_results, sem,
                   tpc, tcancel, thread, tres, hist, cancels>>

\* cancel_test: sets the status to CANCELLED whatever it was.
CancelTest ==
    /\ cancels < MaxCancels
    /\ cancels' = cancels + 1
    /\ record' = update_by_uuid(record, [status |-> Some(CANCELLED)])
    /\ UNCHANGED <<run_results, inputs, resp, mode, wpc, wret, cpc, pending,
                   all_results, sem, tpc, tcancel, thread, tres, hist>>

\* -------------------------------------------------------------- wrapper
\* A wrapper that writes RUNNING before it reads and validates.
WrapperStart_running_first(b) ==
    /\ wpc[b] = "scheduled"
    /\ record' = update_by_uuid(record, [status |-> Some(RUNNING)])
    /\ \/ /\ wpc' = [wpc EXCEPT ![b] = "raised_before_running"]
          /\ UNCHANGED <<cpc, pending, sem, tpc>>
       \/ /\ sem' = [sem EXCEPT ![b] = concurrency]
          /\ tpc' = [tpc EXCEPT ![b] =
                        [i \in RowIds |-> IF i <= df_len(b) THEN "new" ELSE "absent"]]
          /\ pending' = [pending EXCEPT ![b] = 1..df_len(b)]
          /\ cpc' = [cpc EXCEPT ![b] = IF df_len(b) = 0 THEN "returned" ELSE "waiting"]
          /\ wpc' = [wpc EXCEPT ![b] = "running"]
    /\ UNCHANGED <<run_results, inputs, resp, mode, wret, all_results, tcancel,
                   thread, tres, hist, cancels>>

\* test_*_non_stream_pressure_wrapper up to the runner's first await: the
\* download, the read or the validation raises, or the run is set RUNNING
\* and the runner creates one task per row of df.
WrapperStart(b) ==
    /\ wpc[b] = "scheduled"
    /\ \/ /\ wpc' = [wpc EXCEPT ![b] = "raised_before_running"]
          /\ UNCHANGED <<record, cpc, pending, sem, tpc>>
       \/ /\ record' = update_by_uuid(record, [status |-> Some(RUNNING)])
          /\ sem' = [sem EXCEPT ![b] = concurrency]
          /\ tpc' = [tpc EXCEPT ![b] =
                        [i \in RowIds |-> IF i <= df_len(b) THEN "new" ELSE "absent"]]
          /\ pending' = [pending EXCEPT ![b] = 1..df_len(b)]
          /\ cpc' = [cpc EXCEPT ![b] = IF df_len(b) = 0 THEN "returned" ELSE "waiting"]
          /\ wpc' = [wpc EXCEPT ![b] = "running"]
    /\ UNCHANGED <<run_results, inputs, resp, mode, wret, all_results, tcancel,
                   thread, tres, hist, cancels>>

\* The keyword arguments of the update in `except asyncio.CancelledError`.
CancelledUpdateWithResult ==
    [status |-> Some(CANCELLED), duration |-> Some(0),
     result |-> Some([cancelled |-> TRUE])]

CancelledUpdate == [status |-> Some(CANCELLED)]

\* The runner raised CancelledError: status CANCELLED, return {"cancelled": True}.
WrapperCancelled(b) ==
    /\ wpc[b] = "running"
    /\ cpc[b] = "cancelled"
    /\ record' = update_by_uuid(record, CancelledUpdate)
    /\ wret' = [wret EXCEPT ![b] = Some([cancelled |-> TRUE])]
    /\ wpc' = [wpc EXCEPT ![b] = "returned"]
    /\ UNCHANGED <<run_results, inputs, resp, mode, cpc, pending, all_results, sem,
                   tpc, tcancel, thread, tres, hist, cancels>>

\* Steps 6 and 7 of the wrapper: the averages over `results`.  An error
\* dict has no "time_consumption" (sum raises TypeError), an empty list
\* divides by zero.
result_dict(b) ==
    LET results == all_results[b]
        n == Cardinality(results)
    IN  [avg_time_consumption |-> Div(SumOver(results, "time_consumption"), n),
         avg_token_num |-> Div(SumOver(results, "token_num"), n),
         avg_TPS |-> Div(SumOver(results, "TPS"), n),
         avg_score |-> Div(SumOver(results, "score"), n)]

total_time(b) == SumOver(all_results[b], "time_consumption")

AggregationRaises_on_error_only(b) ==
    \E i \in all_results[b] : tres[b][i] = "error"

AggregationRaises(b) ==
    \/ all_results[b] = {}
    \/ \E i \in all_results[b] : tres[b][i] = "error"

WrapperFinish(b) ==
    /\ wpc[b] = "running"
    /\ cpc[b] = "returned"
    /\ IF AggregationRaises(b)
       THEN /\ wpc' = [wpc EXCEPT ![b] = "raised_after_running"]
            /\ UNCHANGED <<record, wret>>
       ELSE /\ record' = update_by_uuid(record,
                    [status |-> Some(IF mode[b] = "experiment" THEN EXPERIMENT ELSE SUCCESS),
                     duration |-> Some(total_time(b)),
                     result |-> Some(result_dict(b))])
            /\ wret' = [wret EXCEPT ![b] = Some(result_dict(b))]
            /\ wpc' = [wpc EXCEPT ![b] = "returned"]
    /\ UNCHANGED <<run_results, inputs, resp, mode, cpc, pending, all_results, sem,
                   tpc, tcancel, thread, tres, hist, cancels>>

\* ------------------------------------------------------------ semaphore
\* Tasks blocked in Semaphore.acquire whose future is not cancelled, in
\* the order they queued (rows start in index order).
Waiting(b) == {j \in RowIds : tpc[b][j] = "waiting" /\ ~tcancel[b][j]}

\* Semaphore.locked
locked_never(b) == FALSE

locked(b) == sem[b] = 0 \/ Waiting(b) # {}

\* A release that adds to the value and wakes nobody.
Release_no_wakeup(b, i, p) ==
    /\ sem' = [sem EXCEPT ![b] = @ + 1]
    /\ tpc' = [tpc EXCEPT ![b][i] = p]

\* Row i leaves `async with semaphore` and ends at position p:
\* Semaphore.release hands the slot to the first waiter, else value + 1.
Release(b, i, p) ==
    LET t == [tpc[b] EXCEPT ![i] = p]
    IN  IF Waiting(b) = {}
        THEN /\ sem' = [sem EXCEPT ![b] = @ + 1]
             /\ tpc' = [tpc EXCEPT ![b] = t]
        ELSE /\ sem' = sem
             /\ tpc' = [tpc EXCEPT ![b] = [t EXCEPT ![Least(Waiting(b))] = "woken"]]

\* ------------------------------------------------- row task _run_single
\* First step of the task: check_cancelled_sync, then `async with
\* semaphore`; with a free slot the agent call starts in a thread at once.
TaskStart(b, i) ==
    /\ tpc[b][i] = "new"
    /\ \A j \in RowIds : j < i => tpc[b][j] # "new"
    /\ IF check_cancelled_sync
       THEN /\ tpc' = [tpc EXCEPT ![b][i] = "cancelled"]
            /\ UNCHANGED <<sem, thread, hist>>
       ELSE IF ~locked(b)
            THEN /\ sem' = [sem EXCEPT ![b] = @ - 1]
                 /\ thread' = [thread EXCEPT ![b][i] = Started("agent")]
                 /\ hist' = [hist EXCEPT ![b][i].invoked = TRUE]
                 /\ tpc' = [tpc EXCEPT ![b][i] = "await_agent"]
            ELSE /\ tpc' = [tpc EXCEPT ![b][i] = "waiting"]
                 /\ UNCHANGED <<sem, thread, hist>>
    /\ UNCHANGED <<record, run_results, inputs, resp, mode, wpc, wret, cpc, pending,
                   all_results, tcancel, tres, cancels>>

\* A task that waited for a slot resumes inside `async with semaphore` and
\* starts the agent call.
TaskDispatch(b, i) ==
    /\ tpc[b][i] = "woken"
    /\ ~tcancel[b][i]
    /\ thread' = [thread EXCEPT ![b][i] = Started("agent")]
    /\ hist' = [hist EXCEPT ![b][i].invoked = TRUE]
    /\ tpc' = [tpc EXCEPT ![b][i] = "await_agent"]
    /\ UNCHANGED <<record, run_results, inputs, resp, mode, wpc, wret, cpc, pending,
                   all_results, sem, tcancel, tres, cancels>>

\* The future of a finished thread: dropped when its task is gone.
Finished(b, i, st) ==
    IF tpc[b][i] = "cancelled" THEN NoThread ELSE [op |-> thread[b][i].op, st |-> st]

\* single_test_*_non_stream_pressure in its thread: returns the metrics
\* (also on an unparsable response) or raises (requests.post fails).
AgentThread(b, i) ==
    /\ thread[b][i] = Started("agent")
    /\ \E st \in {"ret", "exc"} : thread' = [thread EXCEPT ![b][i] = Finished(b, i, st)]
    /\ hist' = [hist EXCEPT ![b][i].late = check_cancelled_sync]
    /\ UNCHANGED <<record, run_results, inputs, resp, mode, wpc, wret, cpc, pending,
                   all_results, sem, tpc, tcancel, tres, cancels>>

\* A task that calls the agent again when the call raised.
TaskAfterAgent_retry(b, i) ==
    /\ tpc[b][i] = "await_agent"
    /\ ~tcancel[b][i]
    /\ \/ /\ thread[b][i].st = "ret"
          /\ IF check_cancelled_sync
             THEN /\ thread' = [thread EXCEPT ![b][i] = NoThread]
                  /\ Release(b, i, "cancelled")
             ELSE /\ thread' = [thread EXCEPT ![b][i] = Started("incS")]
                  /\ tpc' = [tpc EXCEPT ![b][i] = "await_incS"]
                  /\ UNCHANGED sem
       \/ /\ thread[b][i].st = "exc"
          /\ thread' = [thread EXCEPT ![b][i] = Started("agent")]
          /\ UNCHANGED <<tpc, sem>>
    /\ UNCHANGED <<record, run_results, inputs, resp, mode, wpc, wret, cpc, pending,
                   all_results, tcancel, tres, hist, cancels>>

\* The task resumes after the agent call: second cancellation check and
\* increment_success_count, or `except Exception` and increment_failure_count.
TaskAfterAgent(b, i) ==
    /\ tpc[b][i] = "await_agent"
    /\ ~tcancel[b][i]
    /\ \/ /\ thread[b][i].st = "ret"
          /\ IF check_cancelled_sync
             THEN /\ thread' = [thread EXCEPT ![b][i] = NoThread]
                  /\ Release(b, i, "cancelled")
             ELSE /\ thread' = [thread EXCEPT ![b][i] = Started("incS")]
                  /\ tpc' = [tpc EXCEPT ![b][i] = "await_incS"]
                  /\ UNCHANGED sem
       \/ /\ thread[b][i].st = "exc"
          /\ thread' = [thread EXCEPT ![b][i] = Started("incF")]
          /\ tpc' = [tpc EXCEPT ![b][i] = "await_incF"]
          /\ UNCHANGED sem
    /\ UNCHANGED <<record, run_results, inputs, resp, mode, wpc, wret, cpc, pending,
                   all_results, tcancel, tres, hist, cancels>>

\* An increment computed in memory from the row as it was read when the
\* run started (count 0) and written back.
increment_success_count_in_memory(rec) == [rec EXCEPT !.success_count = 1]

\* TestRecordCRUD.increment_success_count: UPDATE ... success_count + 1.
increment_success_count(rec) == [rec EXCEPT !.success_count = @ + 1]

\* TestRecordCRUD.increment_failure_count: UPDATE ... failure_count + 1.
increment_failure_count(rec) == [rec EXCEPT !.failure_count = @ + 1]

IncSuccessThread(b, i) ==
    /\ thread[b][i] = Started("incS")
    /\ record' = increment_success_count(record)
    /\ hist' = [hist EXCEPT ![b][i].s = @ + 1]
    /\ thread' = [thread EXCEPT ![b][i] = Finished(b, i, "ret")]
    /\ UNCHANGED <<run_results, inputs, resp, mode, wpc, wret, cpc, pending,
                   all_results, sem, tpc, tcancel, tres, cancels>>

\* The task resumes after increment_success_count and builds
\* single_run_data: result["generated_answer"] raises KeyError on a
\* workflow result, which goes to `except Exception`; otherwise
\* SingleRunResultCRUD.create is started.
TaskAfterIncS(b, i) ==
    /\ tpc[b][i] = "await_incS"
    /\ ~tcancel[b][i]
    /\ thread[b][i].st = "ret"
    /\ IF "generated_answer" \in ResultKeys(agent_type)
       THEN /\ thread' = [thread EXCEPT ![b][i] = Started("create")]
            /\ tpc' = [tpc EXCEPT ![b][i] = "await_create"]
       ELSE /\ thread' = [thread EXCEPT ![b][i] = Started("incF")]
            /\ tpc' = [tpc EXCEPT ![b][i] = "await_incF"]
    /\ UNCHANGED <<record, run_results, inputs, resp, mode, wpc, wret, cpc, pending,
                   all_results, sem, tcancel, tres, hist, cancels>>

\* SingleRunResultCRUD.create in its thread: inserts the row's record, or
\* re-raises what the insert raised.
CreateThread(b, i) ==
    /\ thread[b][i] = Started("create")
    /\ \/ /\ run_results' = run_results \cup {<<b, i>>}
          /\ thread' = [thread EXCEPT ![b][i] = Finished(b, i, "ret")]
       \/ /\ thread' = [thread EXCEPT ![b][i] = Finished(b, i, "exc")]
          /\ UNCHANGED run_results
    /\ UNCHANGED <<record, inputs, resp, mode, wpc, wret, cpc, pending,
                   all_results, sem, tpc, tcancel, tres, hist, cancels>>

\* The task resumes after create: returns the result, or `except
\* Exception` and increment_failure_count.
TaskAfterCreate(b, i) ==
    /\ tpc[b][i] = "await_create"
    /\ ~tcancel[b][i]
    /\ \/ /\ thread[b][i].st = "ret"
          /\ thread' = [thread EXCEPT ![b][i] = NoThread]
          /\ tres' = [tres EXCEPT ![b][i] = "metrics"]
          /\ Release(b, i, "done")
       \/ /\ thread[b][i].st = "exc"
          /\ thread' = [thread EXCEPT ![b][i] = Started("incF")]
          /\ tpc' = [tpc EXCEPT ![b][i] = "await_incF"]
          /\ UNCHANGED <<sem, tres>>
    /\ UNCHANGED <<record, run_results, inputs, resp, mode, wpc, wret, cpc, pending,
                   all_results, tcancel, hist, cancels>>

IncFailureThread(b, i) ==
    /\ thread[b][i] = Started("incF")
    /\ record' = increment_failure_count(record)
    /\ hist' = [hist EXCEPT ![b][i].f = @ + 1]
    /\ thread' = [thread EXCEPT ![b][i] = Finished(b, i, "ret")]
    /\ UNCHANGED <<run_results, inputs, resp, mode, wpc, wret, cpc, pending,
                   all_results, sem, tpc, tcancel, tres, cancels>>

\* The task returns {"index": ..., "error": ...}.
TaskAfterIncF(b, i) ==
    /\ tpc[b][i] = "await_incF"
    /\ ~tcancel[b][i]
    /\ thread[b][i].st = "ret"
    /\ thread' = [thread EXCEPT ![b][i] = NoThread]
    /\ tres' = [tres EXCEPT ![b][i] = "error"]
    /\ Release(b, i, "done")
    /\ UNCHANGED <<record, run_results, inputs, resp, mode, wpc, wret, cpc, pending,
                   all_results, tcancel, hist, cancels>>

\* Task.cancel() is delivered: CancelledError at the task's await.  A
\* running thread is not stopped; a slot held is released.
TaskCancelled(b, i) ==
    /\ tcancel[b][i]
    /\ tpc[b][i] \in {"waiting", "woken", "await_agent", "await_incS", "await_create",
                      "await_incF"}
    /\ tcancel' = [tcancel EXCEPT ![b][i] = FALSE]
    /\ thread' = [thread EXCEPT ![b][i] = IF @.st = "run" THEN @ ELSE NoThread]
    /\ IF tpc[b][i] = "waiting"
       THEN /\ tpc' = [tpc EXCEPT ![b][i] = "cancelled"]
            /\ UNCHANGED sem
       ELSE Release(b, i, "cancelled")
    /\ UNCHANGED <<record, run_results, inputs, resp, mode, wpc, wret, cpc, pending,
                   all_results, tres, hist, cancels>>

\* ------------------------------------------------------ completion loop
Done(b) == {i \in pending[b] : tpc[b][i] \in {"done", "cancelled"}}

\* One round of `while pending`: asyncio.wait returned `done`; for each
\* done task check_cancelled_sync, task.result(), append.  CancelledError
\* (from the check, or from the result of a task that ended with it)
\* cancels every pending task and is raised.
CompletionLoop(b) ==
    /\ cpc[b] = "waiting"
    /\ Done(b) # {}
    /\ \A i \in pending[b] : tpc[b][i] # "new"
    /\ LET done == Done(b)
           rest == pending[b] \ done
       IN  /\ pending' = [pending EXCEPT ![b] = rest]
           /\ IF check_cancelled_sync \/ \E i \in done : tpc[b][i] = "cancelled"
              THEN /\ tcancel' = [tcancel EXCEPT ![b] = [i \in RowIds |-> i \in rest]]
                   /\ cpc' = [cpc EXCEPT ![b] =
                                 IF agent_type = WORKFLOW THEN "gathering" ELSE "cancelled"]
                   /\ UNCHANGED all_results
              ELSE /\ all_results' = [all_results EXCEPT ![b] = @ \cup done]
                   /\ cpc' = [cpc EXCEPT ![b] = IF rest = {} THEN "returned" ELSE "waiting"]
                   /\ UNCHANGED tcancel
    /\ UNCHANGED <<record, run_results, inputs, resp, mode, wpc, wret, sem, tpc,
                   thread, tres, hist, cancels>>

\* Workflow only: `await asyncio.gather(*pending, return_exceptions=True)`
\* before the CancelledError is raised.
Gathered(b) ==
    /\ cpc[b] = "gathering"
    /\ \A i \in pending[b] : tpc[b][i] \in {"done", "cancelled"}
    /\ cpc' = [cpc EXCEPT ![b] = "cancelled"]
    /\ UNCHANGED <<record, run_results, inputs, resp, mode, wpc, wret, pending,
                   all_results, sem, tpc, tcancel, thread, tres, hist, cancels>>

\* ----------------------------------------------------------------- Next
Next ==
    \/ \E r \in Batches : RunRecord(r)
    \/ CancelTest
    \/ \E b \in Batches : WrapperStart(b)
    \/ \E b \in Batches : WrapperCancelled(b)
    \/ \E b \in Batches : WrapperFinish(b)
    \/ \E b \in Batches, i \in RowIds : TaskStart(b, i)
    \/ \E b \in Batches, i \in RowIds : TaskDispatch(b, i)
    \/ \E b \in Batches, i \in RowIds : AgentThread(b, i)
    \/ \E b \in Batches, i \in RowIds : TaskAfterAgent(b, i)
    \/ \E b \in Batches, i \in RowIds : IncSuccessThread(b, i)
    \/ \E b \in Batches, i \in RowIds : TaskAfterIncS(b, i)
    \/ \E b \in Batches, i \in RowIds : CreateThread(b, i)
    \/ \E b \in Batches, i \in RowIds : TaskAfterCreate(b, i)
    \/ \E b \in Batches, i \in RowIds : IncFailureThread(b, i)
    \/ \E b \in Batches, i \in RowIds : TaskAfterIncF(b, i)
    \/ \E b \in Batches, i \in RowIds : TaskCancelled(b, i)
    \/ \E b \in Batches : CompletionLoop(b)
    \/ \E b \in Batches : Gathered(b)

Spec == Init /\ [][Next]_vars

\* The steps of the event loop and of the worker threads: every one of them
\* is taken once it can be (the loop runs every ready task, every call made
\* in a thread returns); start and cancel requests are the clients'.
Engine ==
    \/ \E b \in Batches : WrapperStart(b)
    \/ \E b \in Batches : WrapperCancelled(b)
    \/ \E b \in Batches : WrapperFinish(b)
    \/ \E b \in Batches, i \in RowIds : TaskStart(b, i)
    \/ \E b \in Batches, i \in RowIds : TaskDispatch(b, i)
    \/ \E b \in Batches, i \in RowIds : AgentThread(b, i)
    \/ \E b \in Batches, i \in RowIds : TaskAfterAgent(b, i)
    \/ \E b \in Batches, i \in RowIds : IncSuccessThread(b, i)
    \/ \E b \in Batches, i \in RowIds : TaskAfterIncS(b, i)
    \/ \E b \in Batches, i \in RowIds : CreateThread(b, i)
    \/ \E b \in Batches, i \in RowIds : TaskAfterCreate(b, i)
    \/ \E b \in Batches, i \in RowIds : IncFailureThread(b, i)
    \/ \E b \in Batches, i \in RowIds : TaskAfterIncF(b, i)
    \/ \E b \in Batches, i \in RowIds : TaskCancelled(b, i)
    \/ \E b \in Batches : CompletionLoop(b)
    \/ \E b \in Batches : Gathered(b)

SpecFair == Init /\ [][Next]_vars /\ WF_vars(Engine)

\* ------------------------------------------------- llm_connection_test
\* A provider name is the set of the keywords it contains; `"x" in name`
\* is membership.
ProviderNames == {{"aliyun", "bailian"}, {"openai"}, {"volcengine"}, {"doubao"}, {}}

\* config: only whether endpointId contains "ark.cn-beijing" is read here.
Configs == [ark_endpoint : BOOLEAN]

\* result.get('status') of a connectivity call: 200, another HTTP status,
\* or None when the call returned {"error": ...}.
ProbeStatuses == {Some(200), Some(401), None}

\* The branch of the if / elif chain on provider_name and config.
Family(c) ==
    IF "aliyun" \in c.provider_name \/ "bailian" \in c.provider_name THEN "aliyun"
    ELSE IF "openai" \in c.provider_name THEN "openai"
    ELSE IF \/ "volcengine" \in c.provider_name
            \/ "doubao" \in c.provider_name
            \/ c.config.ark_endpoint
         THEN "volcengine"
    ELSE "unknown"

\* llm_func.__name__ of the branch.
llm_func(family) ==
    CASE family = "aliyun" -> "send_message_aliyun_dashscope"
      [] family = "openai" -> "send_message_openai_compatible"
      [] family = "volcengine" -> "send_message_volcengine_ark"

\* ProviderModel.to_dict: the columns of the row.
to_dict(c) == [id |-> c.id, provider_name |-> c.provider_name, config |-> c.config]

\* `if result.get('status') == 200`
status_is_any(status) == status # None

status_is_http(status) == status \in {Some(200), Some(401)}

status_is_200(status) == status = Some(200)

\* The state the pure function is applied in: no run in progress, a list
\* of candidates and what each connectivity call would answer.
InitJudge ==
    /\ NotStarted
    /\ nrows = 0
    /\ concurrency = 1
    /\ agent_type = CHATFLOW
    /\ \E n \in 0..MaxCandidates :
          /\ \E f \in [1..n -> [provider_name : ProviderNames, config : Configs]] :
                candidate_models = [i \in 1..n |->
                    [id |-> i, provider_name |-> f[i].provider_name, config |-> f[i].config]]
          /\ probe_status \in [1..n -> ProbeStatuses]
    /\ lpc = 1
    /\ probed = <<>>
    /\ llm = None
    /\ NoSingle
    /\ NoSession

batch == <<record, run_results, nrows, concurrency, agent_type, resp, mode,
           wpc, wret, cpc, pending, all_results, sem, tpc, tcancel, thread, tres,
           hist, cancels>>

\* An iteration that gives up at an unrecognised provider.
llm_connection_test_iteration_stops ==
    /\ llm = None
    /\ lpc <= Len(candidate_models)
    /\ LET candidate_model == candidate_models[lpc]
           family == Family(candidate_model)
       IN  IF family = "unknown"
           THEN /\ llm' = Some([text |-> ""])
                /\ UNCHANGED <<probed, lpc>>
           ELSE /\ probed' = Append(probed, candidate_model.id)
                /\ IF status_is_200(probe_status[candidate_model.id])
                   THEN /\ llm' = Some([llm_record |-> to_dict(candidate_model),
                                        llm_func |-> llm_func(family)])
                        /\ UNCHANGED lpc
                   ELSE /\ lpc' = lpc + 1
                        /\ UNCHANGED llm
    /\ UNCHANGED <<batch, single, session, candidate_models, probe_status>>

\* One iteration of `for candidate_model in candidate_models`: an
\* unrecognised provider is skipped without a call; otherwise the
\* connectivity call is made and status 200 returns the binding.
llm_connection_test_iteration ==
    /\ llm = None
    /\ lpc <= Len(candidate_models)
    /\ LET candidate_model == candidate_models[lpc]
           family == Family(candidate_model)
       IN  IF family = "unknown"
           THEN /\ lpc' = lpc + 1
                /\ UNCHANGED <<probed, llm>>
           ELSE /\ probed' = Append(probed, candidate_model.id)
                /\ IF status_is_200(probe_status[candidate_model.id])
                   THEN /\ llm' = Some([llm_record |-> to_dict(candidate_model),
                                        llm_func |-> llm_func(family)])
                        /\ UNCHANGED lpc
                   ELSE /\ lpc' = lpc + 1
                        /\ UNCHANGED llm
    /\ UNCHANGED <<batch, single, session, candidate_models, probe_status>>

\* The loop ended without a binding: return "".
llm_connection_test_exhausted ==
    /\ llm = None
    /\ lpc > Len(candidate_models)
    /\ llm' = Some([text |-> ""])
    /\ UNCHANGED <<batch, single, session, candidate_models, probe_status, lpc, probed>>

NextJudge ==
    \/ llm_connection_test_iteration
    \/ llm_connection_test_exhausted

SpecJudge == InitJudge /\ [][NextJudge]_vars

\* ------------------------------------- single_test_*_non_stream_pressure
\* Python values of different types are kept apart: an int n, a str of
\* digits (as the sequence of its digits), a float as a fraction.
IntVal(n) == [t |-> "int", v |-> n]
StrVal(digits) == [t |-> "str", v |-> digits]
FloatVal(n) == Div(n, 1)

\* The tokenizer's count for the agent's answer.
AnswerTokens == 2

\* A bound scorer, as llm_connection_test returns it.
BoundLlm ==
    [llm_record |-> to_dict([id |-> 1, provider_name |-> {"aliyun", "bailian"},
                             config |-> [ark_endpoint |-> FALSE]]),
     llm_func |-> llm_func("aliyun")]

\* What the scoring call yields: {"error": ...} or a body without
\* "json"/choices; a content that is JSON with a "score"; a content that is
\* JSON but a bare number; a content that is no JSON, with the runs of
\* digits in it.
ScorerOutputs ==
    {[kind |-> "error"],
     [kind |-> "json_score", score |-> 85],
     [kind |-> "json_number"],
     [kind |-> "text", numbers |-> <<>>],
     [kind |-> "text", numbers |-> << <<8, 5>> >>],
     [kind |-> "text", numbers |-> << <<9>>, <<8, 5>> >>],
     [kind |-> "text", numbers |-> << <<3>>, <<9>> >>]}

\* A row and its environment.  post: requests.post returns or raises;
\* response: the body has the answer, is no JSON, or is JSON without the
\* answer; elapsed: end - start; ref_answer: the column is absent, the
\* cell is empty (pandas NaN) or holds a text.
RowCases ==
    [post : {"ok", "raises"},
     response : {"answer", "bad_json", "no_answer"},
     elapsed : {0, 1},
     ref_answer : {"absent", "nan", "text"},
     scorer : ScorerOutputs]

\* str comparison of two runs of digits.
RECURSIVE StrLeq(_, _)
StrLeq(a, b) ==
    IF a = <<>> THEN TRUE
    ELSE IF b = <<>> THEN FALSE
    ELSE IF a[1] # b[1] THEN a[1] < b[1]
    ELSE StrLeq(Tail(a), Tail(b))

\* extract_score_from_string: {"score": max(numbers)} over the strings
\* re.findall returns; max of an empty list raises ValueError.
extract_score_from_string(numbers) ==
    IF numbers = <<>> THEN [st |-> "exc"]
    ELSE LET S == {numbers[k] : k \in 1..Len(numbers)}
         IN  [st |-> "dict", score |-> StrVal(CHOOSE x \in S : \A y \in S : StrLeq(y, x))]

\* llm['llm_record'] raises TypeError on None and on "".
IsBound(l) == l # None /\ "llm_record" \in DOMAIN l[1]

\* The scoring function is reached: the answer was read, the reference
\* answer is a non-empty str and llm is a binding.
ScorerCalled(c, l) ==
    c.post = "ok" /\ c.response = "answer" /\ c.ref_answer = "text" /\ IsBound(l)

\* `sccore` at the end of the if / else on len(ref_answer): a dict with
\* "score", something that is no dict, or an exception on the way.
sccore(at, c, l) ==
    IF c.ref_answer = "nan" THEN [st |-> "exc"]
    ELSE IF c.ref_answer = "absent"
         THEN (IF at = CHATFLOW THEN [st |-> "dict", score |-> IntVal(100)]
               ELSE [st |-> "nodict"])
    ELSE IF ~IsBound(l) THEN [st |-> "exc"]
    ELSE CASE c.scorer.kind = "error" -> [st |-> "exc"]
           [] c.scorer.kind = "json_score" -> [st |-> "dict", score |-> IntVal(c.scorer.score)]
           [] c.scorer.kind = "json_number" -> [st |-> "nodict"]
           [] c.scorer.kind = "text" -> extract_score_from_string(c.scorer.numbers)

\* The body of `try`: the result dict, or an exception (unreadable
\* response, TypeError, KeyError, ValueError, ZeroDivisionError).
try_body(at, c, l) ==
    LET sc == sccore(at, c, l)
    IN  IF c.response # "answer" \/ sc.st = "exc" \/ c.elapsed = 0 \/ sc.st = "nodict"
        THEN [st |-> "exc"]
        ELSE [st |-> "ret",
              value |-> [k \in ResultKeys(at) |->
                  CASE k = "time_consumption" -> FloatVal(c.elapsed)
                    [] k = "token_num" -> IntVal(AnswerTokens)
                    [] k = "TPS" -> Div(AnswerTokens, c.elapsed)
                    [] k = "score" -> sc.score
                    [] k = "generated_answer" -> "answer"]]

\* The dict built in `except Exception`.
zeroed(at, c) ==
    [k \in ResultKeys(at) |->
        CASE k = "time_consumption" -> FloatVal(c.elapsed)
          [] k = "token_num" -> IntVal(0)
          [] k = "TPS" -> FloatVal(0)
          [] k = "score" -> IntVal(0)
          [] k = "generated_answer" -> ""]

\* single_test_chatflow_non_stream_pressure: requests.post is outside the
\* try; every exception of the body returns the zeroed dict.
single_test_chatflow_non_stream_pressure(c, l) ==
    IF c.post = "raises" THEN [st |-> "exc"]
    ELSE LET body == try_body(CHATFLOW, c, l)
         IN  IF body.st = "ret" THEN body ELSE [st |-> "ret", value |-> zeroed(CHATFLOW, c)]

\* single_test_workflow_non_stream_pressure: the handler first parses
\* response.text again, which raises on a body that is no JSON.
single_test_workflow_non_stream_pressure(c, l) ==
    IF c.post = "raises" THEN [st |-> "exc"]
    ELSE LET body == try_body(WORKFLOW, c, l)
         IN  IF body.st = "ret" THEN body
             ELSE IF c.response = "bad_json" THEN [st |-> "exc"]
             ELSE [st |-> "ret", value |-> zeroed(WORKFLOW, c)]

single_test(at, c, l) ==
    IF at = CHATFLOW THEN single_test_chatflow_non_stream_pressure(c, l)
    ELSE single_test_workflow_non_stream_pressure(c, l)

\* One row of a run that is not cancelled: session["llm"] is missing, the
\* empty string, or a binding.
InitSingle ==
    /\ NotStarted
    /\ nrows = 1
    /\ concurrency = 1
    /\ agent_type \in AgentType
    /\ candidate_models = <<>>
    /\ probe_status = <<>>
    /\ lpc = 1
    /\ probed = <<>>
    /\ llm \in {None, Some([text |-> ""]), Some(BoundLlm)}
    /\ \E c \in RowCases : row_case = Some(c)
    /\ rpc = "call"
    /\ result = None
    /\ scored = FALSE
    /\ NoSession

frame == <<nrows, concurrency, agent_type, resp, mode, wpc, wret, cpc, pending,
           all_results, sem, tpc, tcancel, thread, tres, hist, cancels, judge, row_case,
           session>>

\* The agent call of _run_single.
SingleTest ==
    /\ rpc = "call"
    /\ LET r == single_test(agent_type, row_case[1], llm)
       IN  /\ result' = Some(r)
           /\ rpc' = IF r.st = "ret" THEN "returned" ELSE "except"
    /\ scored' = ScorerCalled(row_case[1], llm)
    /\ UNCHANGED <<frame, record, run_results>>

\* increment_success_count, then single_run_data is built from the result.
SingleIncSuccess ==
    /\ rpc = "returned"
    /\ record' = increment_success_count(record)
    /\ rpc' = IF "generated_answer" \in DOMAIN result[1].value THEN "create" ELSE "except"
    /\ UNCHANGED <<frame, run_results, result, scored>>

\* SingleRunResultCRUD.create inserts the record or raises.
SingleCreate ==
    /\ rpc = "create"
    /\ \/ /\ run_results' = run_results \cup {<<1, 1>>}
          /\ rpc' = "done"
       \/ /\ rpc' = "except"
          /\ UNCHANGED run_results
    /\ UNCHANGED <<frame, record, result, scored>>

\* `except Exception`: increment_failure_count, the error dict is returned.
SingleExcept ==
    /\ rpc = "except"
    /\ record' = increment_failure_count(record)
    /\ rpc' = "error"
    /\ UNCHANGED <<frame, run_results, result, scored>>

NextSingle ==
    \/ SingleTest
    \/ SingleIncSuccess
    \/ SingleCreate
    \/ SingleExcept

SpecSingle == InitSingle /\ [][NextSingle]_vars

\* ------------------------------------------- session["llm"] of a client
\* The provider_model rows of the store; a (provider_name, model_name)
\* pair selects the rows that match it.
ProviderModels ==
    << [id |-> 1, provider_name |-> {"aliyun", "bailian"}, config |-> [ark_endpoint |-> FALSE]],
       [id |-> 2, provider_name |-> {"openai"}, config |-> [ark_endpoint |-> FALSE]] >>

JudgeModels == 1..Len(ProviderModels)

\* llm_connection_test as a function of the candidates and of what each
\* connectivity call answers: the loop from candidate k on.
RECURSIVE llm_connection_test_from(_, _, _)
llm_connection_test_from(models, status, k) ==
    IF k > Len(models) THEN [text |-> ""]
    ELSE LET candidate_model == models[k]
             family == Family(candidate_model)
         IN  IF family # "unknown" /\ status_is_200(status[k])
             THEN [llm_record |-> to_dict(candidate_model), llm_func |-> llm_func(family)]
             ELSE llm_connection_test_from(models, status, k + 1)

llm_connection_test(models, status) == Some(llm_connection_test_from(models, status, 1))

\* One client session that has no "llm" yet and no record.
InitSession ==
    /\ NotStarted
    /\ nrows = 1
    /\ concurrency = 1
    /\ agent_type = CHATFLOW
    /\ NoJudge
    /\ NoSingle
    /\ NoSession

rest == <<record, run_results, nrows, concurrency, agent_type, resp, mode, wpc, wret,
          cpc, pending, all_results, sem, tpc, tcancel, thread, tres, hist, cancels,
          candidate_models, probe_status, lpc, probed, single>>

\* create_record, step 6: the rows of the record's judge model and provider
\* are probed and the outcome is put in session["llm"].
CreateRecord(r, m) ==
    /\ judge_of[r] = None
    /\ \A q \in 1..MaxRecords : q < r => judge_of[q] # None
    /\ \E st \in ProbeStatuses :
          LET v == llm_connection_test(<<ProviderModels[m]>>, <<st>>)
          IN  /\ llm' = v
              /\ bound' = [bound EXCEPT ![r] = v]
    /\ judge_of' = [judge_of EXCEPT ![r] = Some(m)]
    /\ UNCHANGED <<rest, used>>

\* query_provider_models: the outcome is put in session["llm"]; with no
\* binding llm['llm_record'] raises and the session is not saved.
QueryProviderModels(m) ==
    /\ \E st \in ProbeStatuses :
          LET v == llm_connection_test(<<ProviderModels[m]>>, <<st>>)
          IN  llm' = IF IsBound(v) THEN v ELSE llm
    /\ UNCHANGED <<rest, session>>

\* The wrapper of record r: llm = request.session.get("llm"), handed to
\* every row of the run.
WrapperReadsLlm(r) ==
    /\ judge_of[r] # None
    /\ used[r] = None
    /\ used' = [used EXCEPT ![r] = Some(llm)]
    /\ UNCHANGED <<rest, llm, judge_of, bound>>

NextSession ==
    \/ \E r \in 1..MaxRecords, m \in JudgeModels : CreateRecord(r, m)
    \/ \E m \in JudgeModels : QueryProviderModels(m)
    \/ \E r \in 1..MaxRecords : WrapperReadsLlm(r)

SpecSession == InitSession /\ [][NextSession]_vars

\* =============================================================== claims

\* The increments row i of batch b has committed.
Increments(h) == [i \in RowIds |-> <<h[i].s, h[i].f>>]

\* Rows of batch b whose agent invocation has started and not finished.
InFlight(b) == {i \in RowIds : thread[b][i] = Started("agent")}

\* Batch b is the only execution of the run that got as far as RUNNING.
OnlyBatch(b) ==
    \A c \in Batches \ {b} : wpc[c] \in {"none", "scheduled", "raised_before_running"}

Invoked(b) == {i \in RowIds : hist[b][i].invoked}

\* The completion loop of batch b has seen the cancellation.
Observed(b) == cpc[b] \in {"gathering", "cancelled"}

ResultsOf(rr, b) == {x \in rr : x[1] = b}

\* C1: in every runner, the number of rows whose agent invocation has
\* started and not yet finished never exceeds the run's concurrency.
C1_ConcurrencyCap == \A b \in Batches : Cardinality(InFlight(b)) <= concurrency

\* C1 witness: the cap is reached while another row waits for a slot.
C1_Witness ==
    \E b \in Batches :
        /\ Cardinality(InFlight(b)) = concurrency
        /\ \E i \in RowIds : tpc[b][i] = "waiting"

\* C2: at most one batch execution of the run is in progress at any time,
\* also when two start requests arrive before the status is RUNNING.
C2_SingleExecution == Cardinality({b \in Batches : wpc[b] = "running"}) <= 1

\* C3: a start request that reads status RUNNING answers "already
\* running", schedules no batch and leaves status, counters, result and
\* every running batch as they are.
C3_RunningRejected ==
    [][\A r \in Batches :
          (record.status = RUNNING /\ resp[r].kind = "none" /\ resp'[r].kind # "none")
          => /\ resp'[r].kind = "already_running"
             /\ wpc' = wpc
             /\ record' = record
             /\ run_results' = run_results
             /\ <<cpc, tpc, thread>>' = <<cpc, tpc, thread>>]_vars

\* C3 witness: a start request was answered "already running" while the
\* first batch was executing.
C3_Witness ==
    \E r \in Batches :
        /\ resp[r].kind = "already_running"
        /\ \E b \in Batches : wpc[b] = "running"

\* C4: while the persisted status is CANCELLED no row's agent invocation
\* begins, rows that were waiting for a concurrency slot included.
C4_NoDispatchAfterCancel ==
    [][\A b \in Batches, i \in RowIds :
          record.status = CANCELLED => ~(~hist[b][i].invoked /\ hist'[b][i].invoked)]_vars

\* C5: after the completion loop of a batch has observed the cancellation,
\* no row of that batch increments a counter or stores a per-row record.
C5_QuietAfterObserved ==
    [][\A b \in Batches :
          Observed(b) => /\ Increments(hist'[b]) = Increments(hist[b])
                         /\ ResultsOf(run_results', b) = ResultsOf(run_results, b)]_vars

\* C6: no row increments both counters and no row increments a counter
\* twice.
C6_OneIncrementPerRow == \A b \in Batches, i \in RowIds : hist[b][i].s + hist[b][i].f <= 1

\* C7: in a batch that started with both counters at zero, success_count +
\* failure_count never exceeds the number of rows attempted so far.
C7_CountersWithinAttempted ==
    \A b \in Batches :
        OnlyBatch(b) => record.success_count + record.failure_count <= Cardinality(Invoked(b))

\* C8: once the runner has returned without cancellation, success_count +
\* failure_count equals the number of rows of the batch.
C8_CountersEqualRows ==
    \A b \in Batches :
        (OnlyBatch(b) /\ cpc[b] = "returned")
        => record.success_count + record.failure_count = df_len(b)

\* C9: the terminal status SUCCESS / EXPERIMENT is never visible without
\* the aggregate result and the total duration of the batch that set it.
C9_TerminalWithResult ==
    record.status \in {SUCCESS, EXPERIMENT}
    => \E b \in Batches :
          /\ wpc[b] = "returned"
          /\ cpc[b] = "returned"
          /\ record.status = (IF mode[b] = "experiment" THEN EXPERIMENT ELSE SUCCESS)
          /\ record.result = Some(result_dict(b))
          /\ record.duration = Some(total_time(b))

\* C9 witness: a batch returned all its rows and the run is SUCCESS or
\* EXPERIMENT.
C9_Witness ==
    /\ record.status \in {SUCCESS, EXPERIMENT}
    /\ \E b \in Batches : wpc[b] = "returned" /\ all_results[b] # {}

\* C10: when the runner raised the cancellation, the wrapper's step sets
\* the status to CANCELLED and returns the cancellation marker; result,
\* duration and counters are as before, no summary is stored.
C10_CancelledOutcome ==
    [][\A b \in Batches :
          (wpc[b] = "running" /\ cpc[b] = "cancelled" /\ wpc'[b] # "running")
          => /\ record'.status = CANCELLED
             /\ wret'[b] = Some([cancelled |-> TRUE])
             /\ record'.result = record.result
             /\ record'.duration = record.duration
             /\ record'.success_count = record.success_count
             /\ record'.failure_count = record.failure_count]_vars

\* C10 witness: a wrapper returned the cancellation marker.
C10_Witness ==
    \E b \in Batches :
        /\ wpc[b] = "returned"
        /\ wret[b] = Some([cancelled |-> TRUE])
        /\ record.status = CANCELLED

\* The wrapper of batch b ended with an exception that is not a cancellation.
Raised(b) == wpc[b] \in {"raised_before_running", "raised_after_running"}

\* C11: the step in which a wrapper ends with an unrecoverable error
\* (download, read, schema probe, or the aggregation after the batch)
\* leaves the run in status FAILED with no RunSummary stored by that batch.
C11_ErrorMarksFailed ==
    [][\A b \in Batches :
          (~Raised(b) /\ Raised(b)')
          => /\ record'.status = FAILED
             /\ record'.result = record.result]_vars

\* C12: when the validation of a row fails the run ends in FAILED, the
\* batch was never RUNNING and none of its rows had an agent invocation.
C12_ValidationFailed ==
    \A b \in Batches :
        (wpc[b] = "raised_before_running" /\ OnlyBatch(b) /\ cancels = 0)
        => /\ record.status = FAILED
           /\ cpc[b] = "idle"
           /\ Invoked(b) = {}

\* C13: a start request that reads status SUCCESS answers with the stored
\* result, one that reads CANCELLED answers with the rejection; neither
\* schedules a batch nor changes status, counters, result, per-row records
\* or any runner.
C13_TerminalNotRerun ==
    [][\A r \in Batches :
          (record.status \in {SUCCESS, CANCELLED} /\ resp[r].kind = "none"
           /\ resp'[r].kind # "none")
          => /\ record.status = SUCCESS
                => resp'[r] = [kind |-> "stored_result", body |-> record.result]
             /\ record.status = CANCELLED => resp'[r].kind = "already_cancelled"
             /\ wpc' = wpc
             /\ record' = record
             /\ run_results' = run_results
             /\ <<cpc, tpc, thread>>' = <<cpc, tpc, thread>>]_vars

\* C13 witness: a start request on the finished run was answered with the
\* summary the first batch stored.
C13_Witness ==
    \E r \in Batches :
        /\ resp[r].kind = "stored_result"
        /\ resp[r].body # None
        /\ resp[r].body = record.result
        /\ record.status = SUCCESS

\* C14: EXPERIMENT is terminal like SUCCESS: a start request that reads
\* status EXPERIMENT schedules no batch, and no step takes the status from
\* EXPERIMENT to RUNNING.
C14_ExperimentTerminal ==
    [][/\ \A r \in Batches :
             (record.status = EXPERIMENT /\ resp[r].kind = "none"
              /\ resp'[r].kind # "none")
             => wpc' = wpc
       /\ record.status = EXPERIMENT => record'.status # RUNNING]_vars

\* Rows of batch b whose task returned the metrics / the error dict.
Succeeded(b) == {i \in RowIds : tres[b][i] = "metrics"}
Failed(b) == {i \in RowIds : tres[b][i] = "error"}

\* C15: without any cancellation no row failure aborts the batch: no task
\* is cancelled, the runner never ends with the cancellation, and when it
\* returns every row of the dataset has had its agent invocation started.
C15_AllRowsAttempted ==
    \A b \in Batches :
        cancels = 0
        => /\ cpc[b] \notin {"gathering", "cancelled"}
           /\ \A i \in RowIds : tpc[b][i] # "cancelled" /\ ~tcancel[b][i]
           /\ cpc[b] = "returned" => Invoked(b) = 1..df_len(b)

\* C15 witness: with one slot and two rows, the first row failed and the
\* runner returned with both rows invoked.
C15_Witness ==
    \E b \in Batches :
        /\ cancels = 0
        /\ concurrency = 1
        /\ cpc[b] = "returned"
        /\ tres[b][1] = "error"
        /\ Invoked(b) = 1..df_len(b)
        /\ df_len(b) = 2

\* The RunSummary over the rows S.
SummaryOver(S) ==
    LET n == Cardinality(S)
    IN  [avg_time_consumption |-> Div(SumOver(S, "time_consumption"), n),
         avg_token_num |-> Div(SumOver(S, "token_num"), n),
         avg_TPS |-> Div(SumOver(S, "TPS"), n),
         avg_score |-> Div(SumOver(S, "score"), n)]

\* C16: a batch without cancellation in which some rows failed and at
\* least one succeeded completes with a RunSummary averaged over the
\* successful rows, and failure_count is the number of failed rows.
C16_PartialFailureSummary ==
    \A b \in Batches :
        (/\ OnlyBatch(b)
         /\ cancels = 0
         /\ cpc[b] = "returned"
         /\ wpc[b] # "running"
         /\ Failed(b) # {}
         /\ Succeeded(b) # {})
        => /\ wpc[b] = "returned"
           /\ wret[b] = Some(SummaryOver(Succeeded(b)))
           /\ record.result = Some(SummaryOver(Succeeded(b)))
           /\ record.failure_count = Cardinality(Failed(b))

\* C17: the step of the wrapper that aggregates an empty list of results
\* raises: nothing is returned, the record is not written, the status does
\* not become SUCCESS or EXPERIMENT.
C17_EmptyAggregationRaises ==
    [][\A b \in Batches :
          (wpc[b] = "running" /\ cpc[b] = "returned" /\ all_results[b] = {}
           /\ wpc'[b] # "running")
          => /\ wpc'[b] = "raised_after_running"
             /\ wret'[b] = None
             /\ record' = record
             /\ record'.status \notin {SUCCESS, EXPERIMENT}]_vars

\* C17 witness: the wrapper of a batch over zero rows ended by raising
\* in the aggregation, the run still RUNNING.
C17_Witness ==
    \E b \in Batches :
        /\ wpc[b] = "raised_after_running"
        /\ df_len(b) = 0
        /\ all_results[b] = {}
        /\ record.status = RUNNING
        /\ record.result = None

\* C18: when the runner ends with the cancellation, no agent call and no
\* per-row store write of its batch is still running.
C18_NoBackgroundWork ==
    \A b \in Batches :
        cpc[b] = "cancelled"
        => \A i \in RowIds : /\ thread[b][i].st # "run"
                              /\ tpc[b][i] \in {"absent", "done", "cancelled"}

\* C19: a row whose agent invocation finished (returned or raised) while
\* the status was CANCELLED increments neither counter and stores no
\* per-row record.
C19_LateRowDiscarded ==
    \A b \in Batches, i \in RowIds :
        hist[b][i].late
        => /\ hist[b][i].s = 0
           /\ hist[b][i].f = 0
           /\ <<b, i>> \notin run_results

\* Candidate k has a recognised provider and its connectivity call answers 200.
Answers200(k) ==
    /\ Family(candidate_models[k]) # "unknown"
    /\ probe_status[candidate_models[k].id] = Some(200)

\* The ids of the recognised candidates among the first n, in list order.
RECURSIVE RecognisedUpTo(_)
RecognisedUpTo(n) ==
    IF n = 0 THEN <<>>
    ELSE IF Family(candidate_models[n]) = "unknown" THEN RecognisedUpTo(n - 1)
    ELSE Append(RecognisedUpTo(n - 1), candidate_models[n].id)

\* C20: llm_connection_test makes the connectivity calls in list order and
\* returns the record of the first candidate whose call answers 200,
\* with the send function of its provider family; it returns no candidate
\* whose call failed and none that follows a candidate whose call
\* answered 200; with no such candidate it returns the empty string.
C20_FirstReachableBound ==
    /\ \E n \in 0..Len(candidate_models) : probed = RecognisedUpTo(n)
    /\ llm # None
       => IF \E k \in 1..Len(candidate_models) : Answers200(k)
          THEN LET k == Least({j \in 1..Len(candidate_models) : Answers200(j)})
               IN  /\ llm[1] = [llm_record |-> [id |-> candidate_models[k].id,
                                                provider_name |-> candidate_models[k].provider_name,
                                                config |-> candidate_models[k].config],
                                llm_func |-> llm_func(Family(candidate_models[k]))]
                   /\ probed = RecognisedUpTo(k)
          ELSE /\ llm[1] = [text |-> ""]
               /\ probed = RecognisedUpTo(Len(candidate_models))

\* C20 witness: of two candidates the first one's call failed and the
\* second, which answered 200, is the one returned.
C20_Witness ==
    /\ Len(candidate_models) = 2
    /\ Family(candidate_models[1]) # "unknown"
    /\ probe_status[1] # Some(200)
    /\ llm # None
    /\ "llm_record" \in DOMAIN llm[1]
    /\ llm[1].llm_record.id = 2
    /\ probed = <<1, 2>>

\* C21: when no candidate's connectivity call answers 200, or none is of
\* a known provider family, or the list is empty, llm_connection_test
\* ends by returning the empty string: no binding is returned.
C21_EmptyWhenNoneReachable ==
    /\ (llm # None /\ ~\E k \in 1..Len(candidate_models) : Answers200(k))
       => llm[1] = [text |-> ""]
    /\ (llm = None /\ lpc > Len(candidate_models))
       => ~\E k \in 1..Len(candidate_models) : Answers200(k)

\* C21 witness: the first candidate is of no known family although its
\* endpoint would answer 200, the second one's call failed, and the empty
\* string was returned.
C21_Witness ==
    /\ Len(candidate_models) = 2
    /\ Family(candidate_models[1]) = "unknown"
    /\ probe_status[1] = Some(200)
    /\ Family(candidate_models[2]) # "unknown"
    /\ probe_status[2] # Some(200)
    /\ llm = Some([text |-> ""])

\* The ids of the candidates whose connectivity call was made.
Probed == {probed[k] : k \in 1..Len(probed)}

Called == row_case # None /\ rpc # "call"

\* The agent call succeeded: the request returned and the answer was read.
AgentOk == row_case[1].post = "ok" /\ row_case[1].response = "answer"

\* The invocation returned a result dict whose score is the int n.
ScoreIs(n) == result[1].st = "ret" /\ result[1].value["score"] = IntVal(n)

\* C22: a row with an empty reference answer whose agent call succeeded
\* (in a measurable time) gets score 100 in both variants, and the scoring
\* function is not called for it.
C22_EmptyRefScores100 ==
    (Called /\ AgentOk /\ row_case[1].ref_answer = "absent" /\ row_case[1].elapsed > 0)
        => (ScoreIs(100) /\ ~scored)

\* C23: with no scorer bound (the session holds "" or no "llm" at all), a
\* row with a non-empty reference answer whose agent call succeeded gets
\* the sentinel score 100.
C23_UnboundScores100 ==
    (Called /\ AgentOk /\ ~IsBound(llm) /\ row_case[1].ref_answer = "text"
        /\ row_case[1].elapsed > 0)
        => ScoreIs(100)

\* _run_single has returned for the row.
RowEnded == row_case # None /\ rpc \in {"done", "error"}

\* C24: a row whose agent call failed in transport, or whose response could
\* not be read, is counted as a failure: when the row has ended
\* failure_count is 1 and success_count is 0.
C24_AgentFailureCounted ==
    (RowEnded /\ ~AgentOk)
        => (record.failure_count = 1 /\ record.success_count = 0)

\* The scoring call was made and did not yield a JSON object with a score.
ScoringDegraded ==
    ScorerCalled(row_case[1], llm) /\ row_case[1].scorer.kind # "json_score"

\* The row function returned, the per-row record was built and the store
\* refused it.
StoreRaised ==
    /\ rpc = "error"
    /\ result[1].st = "ret"
    /\ "generated_answer" \in DOMAIN result[1].value

\* C25: a row whose agent call succeeded and whose scoring degraded (the
\* scoring call failed or its output was not readable) is still counted as
\* a success, in both variants: when the row has ended (and the store took
\* its record) success_count is 1 and failure_count is 0.
C25_DegradedStillSuccess ==
    (RowEnded /\ AgentOk /\ ScoringDegraded /\ ~StoreRaised)
        => (record.success_count = 1 /\ record.failure_count = 0)

\* C26: a row whose request returned with a measured time of 0 gets a
\* result with throughput 0, in both variants; the invocation does not
\* raise.
C26_ZeroTimeThroughput ==
    (Called /\ row_case[1].post = "ok" /\ row_case[1].elapsed = 0)
        => (result[1].st = "ret" /\ result[1].value["TPS"] = FloatVal(0))

OtherVariant(at) == IF at = CHATFLOW THEN WORKFLOW ELSE CHATFLOW

\* C30: the two variants agree on a row: what the row function of the
\* run's variant produced for the row is what the other variant's function
\* produces for the same row and environment (same fields, same score).
C30_VariantsAgree ==
    Called => result[1] = single_test(OtherVariant(agent_type), row_case[1], llm)

\* The scoring call was made and answered a text that is no JSON and
\* holds at least one run of digits; the row took a measurable time.
FallbackCase ==
    /\ Called /\ AgentOk
    /\ ScorerCalled(row_case[1], llm)
    /\ row_case[1].scorer.kind = "text"
    /\ row_case[1].scorer.numbers # <<>>
    /\ row_case[1].elapsed > 0

\* C35: when the scorer's output is no JSON, the row's score is the first
\* run of digits of the output, in order of occurrence.
C35_FirstIntegerUsed ==
    FallbackCase
        => (result[1].st = "ret"
            /\ result[1].value["score"].v = row_case[1].scorer.numbers[1])

\* C36: a chatflow row whose agent call succeeded (in a measurable time)
\* and whose scoring degraded keeps the metrics of the agent's answer: its
\* token count, its throughput and the generated answer.
C36_DegradationKeepsMetrics ==
    (Called /\ AgentOk /\ ScoringDegraded /\ agent_type = CHATFLOW
        /\ row_case[1].elapsed > 0)
        => (/\ result[1].st = "ret"
            /\ result[1].value["time_consumption"] = FloatVal(row_case[1].elapsed)
            /\ result[1].value["token_num"] = IntVal(AnswerTokens)
            /\ result[1].value["TPS"] = Div(AnswerTokens, row_case[1].elapsed)
            /\ result[1].value["generated_answer"] = "answer")

\* ------------------------------------------------------ the run (Spec)
\* A start request was accepted: its wrapper is scheduled or has run.
Accepted == \E b \in Batches : wpc[b] # "none"

\* C27: once cancel_test has set CANCELLED on a run whose start request was
\* accepted, no step of the engine sets the status to RUNNING, SUCCESS or
\* EXPERIMENT.
C27_CancelledNotOverwritten ==
    [][(record.status = CANCELLED /\ Accepted)
        => record'.status \notin {RUNNING, SUCCESS, EXPERIMENT}]_vars

\* The wrapper of batch b set RUNNING and has ended since, by returning or
\* by an exception.
ExecutionEnded(b) == wpc[b] \in {"returned", "raised_after_running"}

\* C28: a run that was set to RUNNING is not left in RUNNING once its
\* batch execution has ended: its status is then SUCCESS, EXPERIMENT,
\* FAILED or CANCELLED.
C28_TerminalAfterExecution ==
    \A b \in Batches :
        (OnlyBatch(b) /\ ExecutionEnded(b))
            => record.status \in {SUCCESS, EXPERIMENT, FAILED, CANCELLED}

\* C29: under fair scheduling the runner of every batch returns: it ends
\* with one entry per row of df, or with the cancellation outcome; and no
\* row task waits for a slot for ever.
C29_RunnerReturns ==
    /\ \A b \in Batches :
           (cpc[b] = "waiting")
               ~> (\/ cpc[b] = "cancelled"
                   \/ cpc[b] = "returned" /\ all_results[b] = 1..df_len(b))
    /\ \A b \in Batches, i \in RowIds :
           (tpc[b][i] = "waiting") ~> (tpc[b][i] # "waiting")

\* A batch of two rows with one slot returned both rows' entries: the
\* second row waited for the slot of the first.
C29_Witness ==
    \E b \in Batches :
        /\ concurrency = 1
        /\ df_len(b) = 2
        /\ cpc[b] = "returned"
        /\ all_results[b] = {1, 2}
        /\ hist[b][2].invoked

\* A step that is a client's request: run_record or cancel_test.
Request == CancelTest \/ \E r \in Batches : RunRecord(r)

\* C31: on a run that has reached SUCCESS, no start request and no cancel
\* request changes the status or the stored result.
C31_SuccessStable ==
    [][(record.status = SUCCESS /\ Request)
        => (record'.status = SUCCESS /\ record'.result = record.result)]_vars

\* The wrapper of batch b has set the run to RUNNING.
SetRunning(b) == wpc[b] \in {"running", "returned", "raised_after_running"}

\* C33: RUNNING is written only by a wrapper that has read and validated
\* its dataset (a wrapper that fails before that leaves the record as it
\* was), and no row of a batch is invoked before the batch's wrapper has
\* set RUNNING.
C33_RunningAfterValidation ==
    /\ [](\A b \in Batches, i \in RowIds : hist[b][i].invoked => SetRunning(b))
    /\ [][\A b \in Batches :
            /\ (wpc[b] = "scheduled" /\ wpc'[b] = "raised_before_running")
                  => record' = record
            /\ (record'.status = RUNNING /\ record.status # RUNNING)
                  => \E c \in Batches : ~SetRunning(c) /\ SetRunning(c)']_vars

\* A row is being invoked in a batch whose wrapper set RUNNING, after the
\* wrapper of an earlier start request failed before RUNNING.
C33_Witness ==
    \E b, c \in Batches, i \in RowIds :
        /\ wpc[c] = "raised_before_running"
        /\ wpc[b] = "running"
        /\ record.status = RUNNING
        /\ thread[b][i] = Started("agent")

\* C34: in one batch an agent call starts only for a row that was not
\* invoked in this batch before (a failed row is not retried), and when the
\* runner has returned all_results every row of df, and no other, was
\* invoked.
C34_InvokedOnce ==
    /\ [][\A b \in Batches, i \in RowIds :
            (thread'[b][i] = Started("agent") /\ thread[b][i] # Started("agent"))
                => ~hist[b][i].invoked]_vars
    /\ [](\A b \in Batches :
            cpc[b] = "returned" => Invoked(b) = 1..df_len(b))

\* A batch of two rows has completed; the agent call of its first row had
\* raised.
C34_Witness ==
    \E b \in Batches :
        /\ cpc[b] = "returned"
        /\ df_len(b) = 2
        /\ tres[b][1] = "error"
        /\ hist[b][1].s = 0
        /\ tres[b][2] = "metrics"

\* C37: a batch over a non-empty df that ended with no cancel request made
\* has invoked the rows of df (the first 3 rows in experiment mode, every
\* row otherwise) and left the run in EXPERIMENT in experiment mode, in
\* SUCCESS otherwise.
C37_ModeDecidesOutcome ==
    \A b \in Batches :
        (OnlyBatch(b) /\ ExecutionEnded(b) /\ cancels = 0 /\ df_len(b) > 0)
            => (/\ Invoked(b) = 1..df_len(b)
                /\ record.status = IF mode[b] = "experiment" THEN EXPERIMENT ELSE SUCCESS)

\* The number of increments of one counter committed by the rows in S.
RECURSIVE Committed(_, _)
Committed(S, counter) ==
    IF S = {} THEN 0
    ELSE LET x == CHOOSE y \in S : TRUE
         IN  hist[x[1]][x[2]][counter] + Committed(S \ {x}, counter)

\* C39: under every interleaving of the rows' store calls, success_count
\* is the number of increment_success_count calls that completed and
\* failure_count the number of increment_failure_count calls that completed.
C39_NoLostUpdate ==
    /\ record.success_count = Committed(Batches \X RowIds, "s")
    /\ record.failure_count = Committed(Batches \X RowIds, "f")

\* Two rows of a batch run side by side: the increment of row 1 is in
\* flight while that of row 2 has been committed.
C39_Witness ==
    \E b \in Batches :
        /\ concurrency = 2
        /\ thread[b][1] = Started("incS")
        /\ hist[b][2].s = 1
        /\ record.success_count = 1

\* ------------------------------------------- the session (SpecSession)
\* C32: the scorer a run is started with is a binding of that run's own
\* judge model and provider, whatever was bound in the session for other
\* records or provider queries between its creation and its start.
C32_OwnScorerUsed ==
    \A r \in 1..MaxRecords :
        (used[r] # None /\ IsBound(used[r][1]))
            => used[r][1][1].llm_record.id = judge_of[r][1]
====
